---- MODULE Spec2Model ----
(***************************************************************************)
(* Model of lockotron: an in-memory cache (cache.go) with TTL items        *)
(* (item.go), a background cleaner (cleaner.go) and a per-key lock         *)
(* registry (locker.go) that Cache.fetch uses to populate a missing key.   *)
(*                                                                         *)
(* Granularity.  Every critical section of Cache.mutex is straight-line    *)
(* code that blocks on nothing, so each store operation is one atomic      *)
(* step taken at its lock.  The registry mutex (locker.mutex) and the      *)
(* per-key mutexes are modelled explicitly, because Cache.fetch blocks on  *)
(* them.  Cache.fetch is one step per lock operation / store operation /   *)
(* loader call, in the order the code (including its defers) runs them.    *)
(***************************************************************************)
EXTENDS Integers, FiniteSets, Sequences, TLC

\* ---------------------------------------------------------------- bounds
Procs    == {"p1", "p2", "p3"}     \* goroutines calling Fetch / FetchEx
Keys     == {"k1", "k2"}
Values   == {"v1", "v2"}
StartTime == 1                      \* clock reading at NewCache (UnixNano > 0)
MaxTime  == 3                       \* the clock stops advancing here
NumMutexes == 3                     \* per-key mutex objects alive at once
UserValue == "v1"                   \* what Set stores beside concurrent Fetch callers
Sequential == {"p1"}                \* the Fetch caller of the store-centred specification

\* ------------------------------------------------------ program constants
NoTTL     == -1                     \* cache.go (config): NoTTL
NoCleaner == -1                     \* cache.go (config): NoCleaner
ErrNotFound == "cached value not found"
LoaderErr   == "terrible error"     \* an error returned by a fallback
Nil      == "nil"

TTLs      == {NoTTL, 1}             \* durations handed to SetEx / FetchEx
Intervals == {NoCleaner, 1}         \* Config.CleanupInterval
Times     == StartTime..MaxTime
MutexIds  == 1..NumMutexes
NoMutex   == 0
NoProc    == "none"
NoItem    == [value |-> Nil, ttl |-> -2]
NoKey     == "nokey"

VARIABLES
  items,            \* Cache.items        : key -> item (NoItem when absent)
  defaultTTL,       \* Cache.defaultTTL
  cleanupInterval,  \* Config.CleanupInterval given to NewCache
  now,              \* time.Now().UnixNano()
  cleanerPc,        \* cleaner goroutine: "off" | "select" | "sweep" | "stopped"
  cleanerNow,       \* the `now` local of the cleaner's DeleteExpired call
  stopChan,         \* cleaner.stopChan   : "open" | "closed"
  ticker,           \* cleaner.ticker     : "none" | "running" | "stopped"
  closed,           \* history: the user is done with the cache
  mutexesByKey,     \* locker.mutexesByKey : key -> mutex id (NoMutex = none)
  lockerMutex,      \* locker.mutex        : holder, NoProc when free
  locked,           \* the per-key mutexes that are locked
  pc,               \* position of each Fetch caller inside Cache.fetch
  key,              \* fetch's key argument
  ttl,              \* fetch's ttl argument
  mutex,            \* fetch's local `mutex` (the handle obtain returned)
  ret,              \* what fetch returns: [value, err]
  calls,            \* history: number of fallback invocations per key
  stored,           \* history: [at, dur] of the write that made each item
  last              \* history: the store operation the last step performed

vars == <<items, defaultTTL, cleanupInterval, now, cleanerPc, cleanerNow,
          stopChan, ticker, closed, mutexesByKey, lockerMutex, locked, pc, key, ttl, mutex, ret,
          calls, stored, last>>

storeVars  == <<items, stored>>
lockVars   == <<mutexesByKey, lockerMutex, locked>>
fetchVars  == <<pc, key, ttl, mutex, ret>>
configVars == <<defaultTTL, cleanupInterval>>
cleanVars  == <<cleanerPc, cleanerNow, stopChan, ticker, closed>>

NoRet    == [value |-> Nil, err |-> Nil]
NoStored == [at |-> 0, dur |-> 0]
\* op: the operation; key: its key; t: the clock reading a sweep compared the
\* expiry instants with; had: Get, Delete, DeleteAll found an entry, Set and
\* SetEx replaced an entry that had another expiry instant, a sweep removed
\* an entry that was stored with a TTL other than NoTTL.
\* A specification whose Init sets last = Unrecorded keeps no such history.
NoOp     == [op |-> "none", key |-> NoKey, had |-> FALSE, t |-> 0]
Unrecorded == [op |-> "unrecorded", key |-> NoKey, had |-> FALSE, t |-> 0]
Rec(r)   == IF last = Unrecorded THEN Unrecorded ELSE r
Op(name, k, had, t) == Rec([op |-> name, key |-> k, had |-> had, t |-> t])

\* ------------------------------------------------------------- item.go
newItem(value, d) == [value |-> value, ttl |-> now + d]

isExpirable(i) == i.ttl # NoTTL

\* ------------------------------------------------------------ cache.go
\* A Get that treats an entry past its expiry instant as absent.
GetLazy(k) ==
  IF items[k] # NoItem /\ ~(isExpirable(items[k]) /\ now > items[k].ttl)
    THEN [value |-> items[k].value, err |-> Nil]
    ELSE [value |-> Nil, err |-> ErrNotFound]

\* Cache.Get: the lookup under RLock.
Get(k) ==
  IF items[k] # NoItem THEN [value |-> items[k].value, err |-> Nil]
                       ELSE [value |-> Nil, err |-> ErrNotFound]

\* A sweep that spares an entry until the clock is two past its expiry.
ExpiredLate(t) == {k \in Keys : items[k] # NoItem /\ isExpirable(items[k]) /\ t > items[k].ttl + 1}

\* A sweep that also removes an entry whose expiry instant is the reading.
ExpiredInclusive(t) == {k \in Keys : items[k] # NoItem /\ isExpirable(items[k]) /\ t >= items[k].ttl}

\* The map after the loop of Cache.DeleteExpired run with local now = t.
Expired(t) == {k \in Keys : items[k] # NoItem /\ isExpirable(items[k]) /\ t > items[k].ttl}

\* A set that keeps the expiry instant of the entry it replaces.
setKeepExpiry(k, d, value) ==
  /\ items' = [items EXCEPT ![k] = IF items[k] # NoItem
                                     THEN [value |-> value, ttl |-> items[k].ttl]
                                     ELSE newItem(value, d)]
  /\ stored' = [stored EXCEPT ![k] = [at |-> now, dur |-> d]]

\* Cache.set: c.items[key] = newItem(value, ttl), under the write lock.
set(k, d, value) ==
  /\ items' = [items EXCEPT ![k] = newItem(value, d)]
  /\ stored' = [stored EXCEPT ![k] = [at |-> now, dur |-> d]]

\* A NewCache that starts the cleaner whatever the interval is.
NewCleanerPcAlways(interval) == "select"

\* NewCache: a cleaner goroutine is started unless the interval is NoCleaner.
NewCleanerPc(interval) == IF interval # NoCleaner THEN "select" ELSE "off"

\* NewCache(config): the cache, its locker and its cleaner after construction.
NewCache ==
  /\ items = [k \in Keys |-> NoItem]
  /\ defaultTTL \in TTLs
  /\ cleanupInterval \in Intervals
  /\ now = StartTime
  /\ cleanerPc = NewCleanerPc(cleanupInterval)
  /\ cleanerNow = 0
  /\ stopChan = "open"
  /\ ticker = IF cleanerPc = "select" THEN "running" ELSE "none"
  /\ closed = FALSE
  /\ mutexesByKey = [k \in Keys |-> NoMutex]
  /\ lockerMutex = NoProc
  /\ locked = {}
  /\ pc = [p \in Procs |-> "idle"]
  /\ key = [p \in Procs |-> NoKey]
  /\ ttl = [p \in Procs |-> 0]
  /\ mutex = [p \in Procs |-> NoMutex]
  /\ ret = [p \in Procs |-> NoRet]
  /\ calls = [k \in Keys |-> 0]
  /\ stored = [k \in Keys |-> NoStored]

Init == NewCache /\ last = NoOp

\* The clock advances.
Tick ==
  /\ now < MaxTime
  /\ now' = now + 1
  /\ last' = Rec(NoOp)
  /\ UNCHANGED <<storeVars, configVars, cleanVars, lockVars, fetchVars, calls>>

Set(k, v) ==
  /\ set(k, defaultTTL, v)
  /\ last' = Op("Set", k, items[k] # NoItem /\ items[k].ttl # now + defaultTTL, 0)
  /\ UNCHANGED <<configVars, now, cleanVars, lockVars, fetchVars, calls>>

SetEx(k, d, v) ==
  /\ set(k, d, v)
  /\ last' = Op("SetEx", k, items[k] # NoItem /\ items[k].ttl # now + d, 0)
  /\ UNCHANGED <<configVars, now, cleanVars, lockVars, fetchVars, calls>>

\* Cache.Get called by a user; had: it returned a nil error.
GetCall(k) ==
  /\ last' = Op("Get", k, Get(k).err = Nil, 0)
  /\ UNCHANGED <<storeVars, configVars, now, cleanVars, lockVars, fetchVars, calls>>

\* A Delete that empties the whole map.
DeleteEverything(k) ==
  /\ items' = [j \in Keys |-> NoItem]
  /\ stored' = [j \in Keys |-> NoStored]
  /\ last' = Op("Delete", k, items[k] # NoItem, 0)
  /\ UNCHANGED <<configVars, now, cleanVars, lockVars, fetchVars, calls>>

Delete(k) ==
  /\ items' = [items EXCEPT ![k] = NoItem]
  /\ stored' = [stored EXCEPT ![k] = NoStored]
  /\ last' = Op("Delete", k, items[k] # NoItem, 0)
  /\ UNCHANGED <<configVars, now, cleanVars, lockVars, fetchVars, calls>>

DeleteAll ==
  /\ items' = [k \in Keys |-> NoItem]
  /\ stored' = [k \in Keys |-> NoStored]
  /\ last' = Op("DeleteAll", NoKey, \E k \in Keys : items[k] # NoItem, 0)
  /\ UNCHANGED <<configVars, now, cleanVars, lockVars, fetchVars, calls>>

\* The locked loop of Cache.DeleteExpired, entered with local now = t.
sweep(t) ==
  /\ items' = [k \in Keys |-> IF k \in Expired(t) THEN NoItem ELSE items[k]]
  /\ stored' = [k \in Keys |-> IF k \in Expired(t) THEN NoStored ELSE stored[k]]

\* Cache.DeleteExpired called by a user.  `now` is read before the lock is
\* taken, so the scan runs with any clock reading made since NewCache.
DeleteExpired ==
  /\ \E t \in StartTime..now :
       /\ sweep(t)
       /\ last' = Op("DeleteExpired", NoKey, \E k \in Expired(t) : stored[k].dur # NoTTL, t)
  /\ UNCHANGED <<configVars, now, cleanVars, lockVars, fetchVars, calls>>

\* cleaner.Start, case <-c.ticker.C: the ticker has delivered a tick, the
\* select takes that case (whatever stopChan is: select picks among the ready
\* cases) and DeleteExpired reads the clock ...
CleanerTick ==
  /\ cleanerPc = "select"
  /\ ticker = "running"
  /\ cleanerPc' = "sweep"
  /\ cleanerNow' = now
  /\ last' = Rec(NoOp)
  /\ UNCHANGED <<storeVars, configVars, now, lockVars, fetchVars, calls,
                 stopChan, ticker, closed>>

\* ... and then scans the map under the lock.
CleanerSweep ==
  /\ cleanerPc = "sweep"
  /\ sweep(cleanerNow)
  /\ cleanerPc' = "select"
  /\ cleanerNow' = 0
  /\ last' = Op("CleanerSweep", NoKey, \E k \in Expired(cleanerNow) : stored[k].dur # NoTTL,
              cleanerNow)
  /\ UNCHANGED <<configVars, now, lockVars, fetchVars, calls,
                 stopChan, ticker, closed>>

\* A stop case that returns without halting the ticker.
CleanerStopLeaveTicker ==
  /\ cleanerPc = "select"
  /\ stopChan = "closed"
  /\ cleanerPc' = "stopped"
  /\ last' = Rec(NoOp)
  /\ UNCHANGED <<storeVars, configVars, now, lockVars, fetchVars, calls,
                 cleanerNow, stopChan, ticker, closed>>

\* cleaner.Start, case <-c.stopChan: c.ticker.Stop(); return.
CleanerStop ==
  /\ cleanerPc = "select"
  /\ stopChan = "closed"
  /\ ticker' = "stopped"
  /\ cleanerPc' = "stopped"
  /\ last' = Rec(NoOp)
  /\ UNCHANGED <<storeVars, configVars, now, lockVars, fetchVars, calls,
                 cleanerNow, stopChan, closed>>

\* cleaner.Stop: close(c.stopChan), called once by the owner of a started
\* cleaner (a second close of the channel panics).
Stop ==
  /\ cleanerPc # "off"
  /\ stopChan = "open"
  /\ stopChan' = "closed"
  /\ last' = Rec(NoOp)
  /\ UNCHANGED <<storeVars, configVars, now, lockVars, fetchVars, calls,
                 cleanerPc, cleanerNow, ticker, closed>>

\* The user is done with the cache.  Cache has no Close method and no field
\* that refers to the cleaner NewCache started, so nothing of the cache, and
\* in particular not stopChan, changes.
Close ==
  /\ ~closed
  /\ closed' = TRUE
  /\ last' = Rec(NoOp)
  /\ UNCHANGED <<storeVars, configVars, now, lockVars, fetchVars, calls,
                 cleanerPc, cleanerNow, stopChan, ticker>>

\* ----------------------------------------------------------- locker.go
\* The mutex objects some caller or the registry still refers to.
LiveMutexes ==
  {mutex[p] : p \in Procs} \cup {mutexesByKey[k] : k \in Keys}

\* &deadlock.Mutex{}: a fresh, unlocked mutex object.
NewMutex == CHOOSE m \in MutexIds : m \notin LiveMutexes /\ \A n \in MutexIds : n \notin LiveMutexes => m <= n

\* obtain that hands every key the one mutex the registry already holds.
obtainGlobal(k) ==
  IF \E j \in Keys : mutexesByKey[j] # NoMutex
    THEN mutexesByKey[CHOOSE j \in Keys : mutexesByKey[j] # NoMutex]
    ELSE NewMutex

\* obtain that creates a mutex on every call, whatever the registry holds.
obtainFresh(k) == NewMutex

\* The body of locker.obtain, under locker.mutex: the mutex it returns.
obtain(k) == IF mutexesByKey[k] # NoMutex THEN mutexesByKey[k] ELSE NewMutex

\* A release that leaves the entry in the registry.
releaseKeep(k) == mutexesByKey

\* The body of locker.release, under locker.mutex.
release(k) == [mutexesByKey EXCEPT ![k] = NoMutex]

\* fetch that skips the first lookup and always takes the per-key lock.
fetchNoFastPath(p, k, d) ==
  /\ pc[p] = "idle"
  /\ key' = [key EXCEPT ![p] = k]
  /\ pc' = [pc EXCEPT ![p] = "obtain"]
  /\ ttl' = [ttl EXCEPT ![p] = d]
  /\ last' = Rec(NoOp)
  /\ UNCHANGED <<storeVars, configVars, now, cleanVars, lockVars, mutex, ret, calls>>

\* ------------------------------------------------- cache.go: Cache.fetch
\* Lines 89-92: the first c.Get(key); a hit returns at once.
fetch(p, k, d) ==
  /\ pc[p] = "idle"
  /\ key' = [key EXCEPT ![p] = k]
  /\ IF Get(k).err = Nil
       THEN /\ pc' = [pc EXCEPT ![p] = "done"]
            /\ ret' = [ret EXCEPT ![p] = [value |-> Get(k).value, err |-> Nil]]
            /\ ttl' = ttl
       ELSE /\ pc' = [pc EXCEPT ![p] = "obtain"]
            /\ ttl' = [ttl EXCEPT ![p] = d]
            /\ ret' = ret
  /\ last' = Rec(NoOp)
  /\ UNCHANGED <<storeVars, configVars, now, cleanVars, lockVars, mutex, calls>>

Fetch(p, k) == fetch(p, k, defaultTTL)

FetchEx(p, k, d) == fetch(p, k, d)

\* Line 94, locker.obtain: l.mutex.Lock()
ObtainLock(p) ==
  /\ pc[p] = "obtain"
  /\ lockerMutex = NoProc
  /\ lockerMutex' = p
  /\ pc' = [pc EXCEPT ![p] = "obtaining"]
  /\ last' = Rec(NoOp)
  /\ UNCHANGED <<storeVars, configVars, now, cleanVars, mutexesByKey, locked,
                 key, ttl, mutex, ret, calls>>

\* An obtain that returns without l.mutex.Unlock().
ObtainKeepLocked(p) ==
  /\ pc[p] = "obtaining"
  /\ mutex' = [mutex EXCEPT ![p] = obtain(key[p])]
  /\ mutexesByKey' = [mutexesByKey EXCEPT ![key[p]] = obtain(key[p])]
  /\ pc' = [pc EXCEPT ![p] = "lock"]
  /\ last' = Rec(NoOp)
  /\ UNCHANGED <<storeVars, configVars, now, cleanVars, locked, lockerMutex,
                 key, ttl, ret, calls>>

\* Line 94, locker.obtain: look up or create the key's mutex, l.mutex.Unlock()
Obtain(p) ==
  /\ pc[p] = "obtaining"
  /\ mutex' = [mutex EXCEPT ![p] = obtain(key[p])]
  /\ mutexesByKey' = [mutexesByKey EXCEPT ![key[p]] = obtain(key[p])]
  /\ lockerMutex' = NoProc
  /\ pc' = [pc EXCEPT ![p] = "lock"]
  /\ last' = Rec(NoOp)
  /\ UNCHANGED <<storeVars, configVars, now, cleanVars, locked,
                 key, ttl, ret, calls>>

\* Line 95: mutex.Lock() blocks while the mutex is locked.
MutexLock(p) ==
  /\ pc[p] = "lock"
  /\ mutex[p] \notin locked
  /\ locked' = locked \cup {mutex[p]}
  /\ pc' = [pc EXCEPT ![p] = "recheck"]
  /\ last' = Rec(NoOp)
  /\ UNCHANGED <<storeVars, configVars, now, cleanVars, mutexesByKey, lockerMutex,
                 key, ttl, mutex, ret, calls>>

\* A recheck whose hit returns the value of the first lookup, which missed.
RecheckStale(p) ==
  /\ pc[p] = "recheck"
  /\ IF Get(key[p]).err = Nil
       THEN /\ ret' = [ret EXCEPT ![p] = [value |-> Nil, err |-> Nil]]
            /\ pc' = [pc EXCEPT ![p] = "release"]
            /\ ttl' = [ttl EXCEPT ![p] = 0]
            /\ calls' = calls
       ELSE /\ pc' = [pc EXCEPT ![p] = "load"]
            /\ calls' = [calls EXCEPT ![key[p]] = @ + 1]
            /\ UNCHANGED <<ret, ttl>>
  /\ last' = Rec(NoOp)
  /\ UNCHANGED <<storeVars, configVars, now, cleanVars, lockVars,
                 key, mutex>>

\* Lines 99-104: the second c.Get(key); a hit returns (the defers run next),
\* a miss calls fallback(key).
Recheck(p) ==
  /\ pc[p] = "recheck"
  /\ IF Get(key[p]).err = Nil
       THEN /\ ret' = [ret EXCEPT ![p] = [value |-> Get(key[p]).value, err |-> Nil]]
            /\ pc' = [pc EXCEPT ![p] = "release"]
            /\ ttl' = [ttl EXCEPT ![p] = 0]
            /\ calls' = calls
       ELSE /\ pc' = [pc EXCEPT ![p] = "load"]
            /\ calls' = [calls EXCEPT ![key[p]] = @ + 1]
            /\ UNCHANGED <<ret, ttl>>
  /\ last' = Rec(NoOp)
  /\ UNCHANGED <<storeVars, configVars, now, cleanVars, lockVars,
                 key, mutex>>

\* A fetch that stores the fallback's value with c.Set, the default TTL.
LoaderOkDefaultTTL(p, v) ==
  /\ pc[p] = "load"
  /\ set(key[p], defaultTTL, v)
  /\ ret' = [ret EXCEPT ![p] = [value |-> v, err |-> Nil]]
  /\ pc' = [pc EXCEPT ![p] = "release"]
  /\ ttl' = [ttl EXCEPT ![p] = 0]
  /\ last' = Rec(NoOp)
  /\ UNCHANGED <<configVars, now, cleanVars, lockVars, key, mutex, calls>>

\* Lines 104-111: fallback returns (v, nil); c.SetEx(key, ttl, v); return v.
LoaderOk(p, v) ==
  /\ pc[p] = "load"
  /\ set(key[p], ttl[p], v)
  /\ ret' = [ret EXCEPT ![p] = [value |-> v, err |-> Nil]]
  /\ pc' = [pc EXCEPT ![p] = "release"]
  /\ ttl' = [ttl EXCEPT ![p] = 0]
  /\ last' = Rec(NoOp)
  /\ UNCHANGED <<configVars, now, cleanVars, lockVars, key, mutex, calls>>

\* A failing fallback whose error is replaced by the lookup's ErrNotFound.
LoaderFailNotFound(p, e) ==
  /\ pc[p] = "load"
  /\ ret' = [ret EXCEPT ![p] = [value |-> Nil, err |-> ErrNotFound]]
  /\ pc' = [pc EXCEPT ![p] = "release"]
  /\ ttl' = [ttl EXCEPT ![p] = 0]
  /\ last' = Rec(NoOp)
  /\ UNCHANGED <<storeVars, configVars, now, cleanVars, lockVars, key, mutex, calls>>

\* Lines 104-107: fallback returns (_, e) with e # nil; return nil, e.
LoaderFail(p, e) ==
  /\ pc[p] = "load"
  /\ ret' = [ret EXCEPT ![p] = [value |-> Nil, err |-> e]]
  /\ pc' = [pc EXCEPT ![p] = "release"]
  /\ ttl' = [ttl EXCEPT ![p] = 0]
  /\ last' = Rec(NoOp)
  /\ UNCHANGED <<storeVars, configVars, now, cleanVars, lockVars, key, mutex,
                 calls>>

\* Line 97, the defer registered last runs first: locker.release, l.mutex.Lock()
ReleaseLock(p) ==
  /\ pc[p] = "release"
  /\ lockerMutex = NoProc
  /\ lockerMutex' = p
  /\ pc' = [pc EXCEPT ![p] = "releasing"]
  /\ last' = Rec(NoOp)
  /\ UNCHANGED <<storeVars, configVars, now, cleanVars, mutexesByKey, locked,
                 key, ttl, mutex, ret, calls>>

\* A release that runs after the per-key mutex was unlocked: the two defers
\* in the other order.
ReleaseAfterUnlock(p) ==
  /\ pc[p] = "releasing"
  /\ mutexesByKey' = release(key[p])
  /\ lockerMutex' = NoProc
  /\ locked' = locked \ {mutex[p]}
  /\ mutex' = [mutex EXCEPT ![p] = NoMutex]
  /\ pc' = [pc EXCEPT ![p] = "done"]
  /\ last' = Rec(NoOp)
  /\ UNCHANGED <<storeVars, configVars, now, cleanVars, key, ttl, ret, calls>>

\* locker.release: delete(l.mutexesByKey, key), l.mutex.Unlock()
Release(p) ==
  /\ pc[p] = "releasing"
  /\ mutexesByKey' = release(key[p])
  /\ lockerMutex' = NoProc
  /\ pc' = [pc EXCEPT ![p] = "unlock"]
  /\ last' = Rec(NoOp)
  /\ UNCHANGED <<storeVars, configVars, now, cleanVars, locked,
                 key, ttl, mutex, ret, calls>>

\* A return that leaves the per-key mutex locked.
MutexUnlockSkipped(p) ==
  /\ pc[p] = "unlock"
  /\ mutex' = [mutex EXCEPT ![p] = NoMutex]
  /\ pc' = [pc EXCEPT ![p] = "done"]
  /\ last' = Rec(NoOp)
  /\ UNCHANGED <<storeVars, configVars, now, cleanVars, mutexesByKey, lockerMutex,
                 locked, key, ttl, ret, calls>>

\* Line 96, the defer registered first runs last: mutex.Unlock(); fetch returns.
MutexUnlock(p) ==
  /\ pc[p] = "unlock"
  /\ locked' = locked \ {mutex[p]}
  /\ mutex' = [mutex EXCEPT ![p] = NoMutex]
  /\ pc' = [pc EXCEPT ![p] = "done"]
  /\ last' = Rec(NoOp)
  /\ UNCHANGED <<storeVars, configVars, now, cleanVars, mutexesByKey, lockerMutex,
                 key, ttl, ret, calls>>

\* The operations a user calls on the store.
StoreNext ==
  \/ \E k \in Keys, v \in Values : Set(k, v)
  \/ \E k \in Keys, d \in TTLs, v \in Values : SetEx(k, d, v)
  \/ \E k \in Keys : GetCall(k)
  \/ \E k \in Keys : Delete(k)
  \/ DeleteAll
  \/ DeleteExpired

\* The clock and the cleaner goroutine.
BackgroundNext ==
  \/ Tick
  \/ CleanerTick
  \/ CleanerSweep

\* Cache.Fetch called by the goroutines in P, with fallbacks that succeed.
FetchNext(P) ==
  \/ \E p \in P, k \in Keys : Fetch(p, k)
  \/ \E p \in P : ObtainLock(p)
  \/ \E p \in P : Obtain(p)
  \/ \E p \in P : MutexLock(p)
  \/ \E p \in P : Recheck(p)
  \/ \E p \in P, v \in Values : LoaderOk(p, v)
  \/ \E p \in P : ReleaseLock(p)
  \/ \E p \in P : Release(p)
  \/ \E p \in P : MutexUnlock(p)

FetchExNext(P) == \E p \in P, k \in Keys, d \in TTLs : FetchEx(p, k, d)

FailNext(P) == \E p \in P : LoaderFail(p, LoaderErr)

\* The client goroutine is not inside Cache.fetch.
ClientIdle == \A p \in Sequential : pc[p] \in {"idle", "done"}

\* One client goroutine that calls the store operations and Fetch / FetchEx
\* one after the other, beside the clock and the cleaner.
Next ==
  \/ ClientIdle /\ StoreNext
  \/ BackgroundNext
  \/ FetchNext(Sequential)
  \/ FetchExNext(Sequential)
  \/ FailNext(Sequential)

Spec == Init /\ [][Next]_vars

\* Goroutines that call Fetch concurrently with each other and with
\* Set, Delete and DeleteAll, on a cache without cleaner and a clock that
\* stands still.
FetchInit ==
  /\ NewCache
  /\ defaultTTL = 1
  /\ cleanupInterval = NoCleaner
  /\ last = Unrecorded

FetchSpecNext ==
  \/ FetchNext(Procs)
  \/ FailNext(Procs)
  \/ \E k \in Keys : Set(k, UserValue)
  \/ \E k \in Keys : Delete(k)
  \/ DeleteAll

FetchSpec == FetchInit /\ [][FetchSpecNext]_vars

\* Concurrent Fetch / FetchEx callers whose fallbacks all succeed, and no
\* other operation.
ColdSpec == FetchInit /\ [][FetchNext(Procs) \/ FetchExNext(Procs)]_vars

\* The fallback of StuckKey may run forever; every other step of a call is
\* taken once it stays possible: critical sections of locker.mutex are short,
\* a free mutex is handed to a waiter, other fallbacks return.
StuckKey == "k1"

Step(p) ==
  \/ ObtainLock(p)
  \/ Obtain(p)
  \/ MutexLock(p)
  \/ Recheck(p)
  \/ ReleaseLock(p)
  \/ Release(p)
  \/ MutexUnlock(p)
  \/ key[p] # StuckKey /\ ((\E v \in Values : LoaderOk(p, v)) \/ LoaderFail(p, LoaderErr))

IndepSpec ==
  /\ FetchInit
  /\ [][FetchNext(Procs) \/ FailNext(Procs)]_vars
  /\ \A p \in Procs : WF_vars(Step(p))

\* The whole program up to its teardown: the store operations, the clock, the
\* cleaner NewCache started, and the user's last use of the cache.  The
\* cleaner goroutine and the ticker are scheduled.
CloseNext ==
  \/ StoreNext
  \/ BackgroundNext
  \/ Close

CloseSpec ==
  /\ Init
  /\ [][CloseNext]_vars
  /\ WF_vars(CleanerTick) /\ WF_vars(CleanerSweep)

\* The cleaner driven by an owner that holds it: cleaner.Stop is called on
\* the started cleaner.  A sweep that has begun finishes, and a select that
\* finds stopChan closed again and again takes that case (Go picks among the
\* ready cases at random).
CleanerNext ==
  \/ StoreNext
  \/ BackgroundNext
  \/ Stop
  \/ CleanerStop

CleanerInit == Init /\ cleanupInterval # NoCleaner

CleanerSpec ==
  /\ CleanerInit
  /\ [][CleanerNext]_vars
  /\ WF_vars(CleanerSweep) /\ SF_vars(CleanerStop)

\* Every step of a call that is inside Cache.fetch, the return of its
\* fallback included.
Run(p) ==
  \/ ObtainLock(p)
  \/ Obtain(p)
  \/ MutexLock(p)
  \/ Recheck(p)
  \/ LoaderOk(p, UserValue) \/ LoaderFail(p, LoaderErr)
  \/ ReleaseLock(p)
  \/ Release(p)
  \/ MutexUnlock(p)

\* Concurrent Fetch callers beside Delete and DeleteAll.
LiveNext ==
  \/ \E p \in Procs, k \in Keys : Fetch(p, k)
  \/ \E p \in Procs : Run(p)
  \/ \E k \in Keys : Delete(k)
  \/ DeleteAll

\* Every goroutine inside Cache.fetch is scheduled, a free mutex is handed to
\* a goroutine that waits for it, and every fallback returns.
LiveSpec ==
  /\ FetchInit
  /\ [][LiveNext]_vars
  /\ \A p \in Procs : WF_vars(Run(p))

\* Concurrent Fetch / FetchEx callers whose fallbacks succeed or fail, and no
\* other operation: every write to the store is a call's own.
WriteNext == FetchNext(Procs) \/ FetchExNext(Procs) \/ FailNext(Procs)

WriteSpec == FetchInit /\ [][WriteNext]_vars

\* ======================================================================
\* Properties
\* ======================================================================
Holding == {"recheck", "load", "release", "releasing", "unlock"}
SlowExit == {"release", "releasing", "unlock"}
Ok(v) == [value |-> v, err |-> Nil]
Failed(e) == [value |-> Nil, err |-> e]

\* C1 -- Single-flight.  When Fetch / FetchEx calls are the only operations and
\* every fallback succeeds, the fallback of a key is invoked at most once, and
\* every call that has returned for the key finds exactly one invocation and
\* returns the value that invocation stored.
C1_SingleFlight ==
  \A k \in Keys :
    /\ calls[k] <= 1
    /\ \A p \in Procs :
         (key[p] = k /\ pc[p] = "done") =>
           /\ calls[k] = 1
           /\ items[k] # NoItem
           /\ ret[p] = Ok(items[k].value)

\* Three calls for one key that all missed at their first lookup: one has
\* returned, the other two are past their recheck with the same value.
C1_Witness ==
  \E k \in Keys, p \in Procs :
    /\ calls[k] = 1
    /\ pc[p] = "done" /\ key[p] = k
    /\ \A q \in Procs \ {p} : key[q] = k /\ pc[q] = "unlock" /\ ret[q] = ret[p]

\* C2 -- At most one caller is executing the fallback of a given key.
C2_OneLoaderPerKey ==
  \A p, q \in Procs :
    (p # q /\ pc[p] = "load" /\ pc[q] = "load") => key[p] # key[q]

\* C3 -- Error propagation.  A call whose fallback fails returns (nil, E) with
\* the fallback's own error, and neither that step nor any later step of the
\* call writes the store; a recheck that misses always invokes the fallback,
\* so a later Fetch on the still absent key runs it again.
C3_ErrorPropagation ==
  [][\A p \in Procs :
       /\ LoaderFail(p, LoaderErr) =>
            /\ ret'[p] = Failed(LoaderErr)
            /\ items' = items
       /\ (pc[p] \in SlowExit /\ ret[p].err # Nil /\ pc'[p] # pc[p]) =>
            /\ ret'[p] = Failed(LoaderErr)
            /\ items' = items
       /\ (pc[p] = "recheck" /\ pc'[p] # "recheck" /\ items[key[p]] = NoItem) =>
            /\ pc'[p] = "load"
            /\ calls'[key[p]] = calls[key[p]] + 1
     ]_vars

\* A call has returned (nil, E), its key is absent, and a second call on the
\* key is inside the fallback.
C3_Witness ==
  \E p, q \in Procs :
    /\ p # q /\ key[p] = key[q]
    /\ pc[p] = "done" /\ ret[p] = Failed(LoaderErr)
    /\ items[key[p]] = NoItem
    /\ pc[q] = "load" /\ calls[key[q]] = 2

\* C4 -- Fast path.  A Fetch / FetchEx call whose key is present at its first
\* lookup returns what Get returns, in that one step, without invoking the
\* fallback and without touching the registry, a per-key mutex or the store.
C4_FastPath ==
  [][\A p \in Procs :
       (pc[p] = "idle" /\ pc'[p] # "idle" /\ items[key'[p]] # NoItem) =>
         /\ pc'[p] = "done"
         /\ ret'[p] = Ok(items[key'[p]].value)
         /\ ret'[p] = Get(key'[p])
         /\ calls' = calls
         /\ UNCHANGED <<mutexesByKey, lockerMutex, locked, mutex, items>>
     ]_vars

\* The client has stored a value and then fetched it: the call is done with
\* that value and no fallback has ever run.
C4_Witness ==
  \E p \in Sequential :
    /\ pc[p] = "done"
    /\ items[key[p]] # NoItem
    /\ ret[p] = Ok(items[key[p]].value)
    /\ \A k \in Keys : calls[k] = 0

\* The step is a sweep: DeleteExpired called by a user or by the cleaner.
SweepStep == DeleteExpired \/ CleanerSweep

\* C5 -- No-expiry sentinel.  No sweep removes or changes an entry that was
\* stored with TTL = NoTTL.
C5_NoTTLNeverSwept ==
  [][SweepStep =>
       \A k \in Keys :
         (items[k] # NoItem /\ stored[k].dur = NoTTL) => items'[k] = items[k]
     ]_vars

\* C6 -- Expiry.  In the state a sweep leaves, Get finds no entry that was
\* stored at s with a TTL t other than NoTTL when the clock reading the sweep
\* used exceeds s + t; only a later write makes the key present again.
C6_Expiry ==
  /\ last.op \in {"DeleteExpired", "CleanerSweep"} =>
       \A k \in Keys :
         (stored[k].dur # NoTTL /\ last.t > stored[k].at + stored[k].dur)
           => Get(k) = Failed(ErrNotFound)
  /\ \A k \in Keys :
       /\ items[k] = NoItem <=> stored[k] = NoStored
       /\ items[k] # NoItem => items[k].ttl = stored[k].at + stored[k].dur

\* A sweep has just removed an entry stored with a TTL other than NoTTL.
C6_Witness ==
  /\ last.op \in {"DeleteExpired", "CleanerSweep"}
  /\ last.had
  /\ \E k \in Keys : items[k] = NoItem

\* C7 -- Sweeper disabled.  On a cache built with CleanupInterval = NoCleaner
\* the cleaner goroutine does not exist, and an entry leaves the map or changes
\* only in a DeleteExpired, Delete, DeleteAll, Set or SetEx call or when a
\* Fetch / FetchEx call stores its fallback's value.
C7_NoCleaner ==
  [][cleanupInterval = NoCleaner =>
       /\ cleanerPc = "off" /\ cleanerPc' = "off"
       /\ ~CleanerTick /\ ~CleanerSweep
       /\ (\E k \in Keys : items[k] # NoItem /\ items'[k] # items[k]) =>
            \/ last'.op \in {"DeleteExpired", "Delete", "DeleteAll", "Set", "SetEx"}
            \/ \E p \in Procs : pc[p] = "load" /\ pc'[p] = "release"
     ]_vars

\* No cleaner, and an entry is still in the map after its TTL has elapsed.
C7_Witness ==
  /\ cleanupInterval = NoCleaner
  /\ \E k \in Keys :
       /\ items[k] # NoItem
       /\ stored[k].dur # NoTTL
       /\ now > stored[k].at + stored[k].dur
       /\ Get(k) = Ok(items[k].value)

\* C8 -- Set overwrite.  Whatever the map held for k, after Set(k, v) Get(k)
\* returns v and the entry expires at (time of this Set) + DefaultTTL.
C8_SetOverwrite ==
  [][\A k \in Keys, v \in Values :
       Set(k, v) =>
         /\ Get(k)' = Ok(v)
         /\ items'[k].ttl = now + defaultTTL
         /\ \A j \in Keys \ {k} : items'[j] = items[j]
     ]_vars

\* Set has just replaced an entry that had another expiry instant.
C8_Witness ==
  /\ last.op = "Set"
  /\ last.had
  /\ items[last.key].ttl = now + defaultTTL

\* C9 -- Delete.  After Delete(k) Get(k) returns ErrNotFound, every other key
\* keeps its entry, and Delete of an absent key leaves the map as it was.
C9_Delete ==
  [][\A k \in Keys :
       Delete(k) =>
         /\ Get(k)' = Failed(ErrNotFound)
         /\ \A j \in Keys \ {k} : items'[j] = items[j]
         /\ items[k] = NoItem => items' = items
     ]_vars

\* Delete has just removed an entry while another key keeps its own.
C9_Witness ==
  /\ last.op = "Delete"
  /\ last.had
  /\ items[last.key] = NoItem
  /\ \E j \in Keys \ {last.key} : items[j] # NoItem

\* C10 -- Independence of keys.  While the fallback of StuckKey may never
\* return, every Fetch call on another key that has missed returns.
C10_Independence ==
  \A p \in Procs :
    (pc[p] \notin {"idle", "done"} /\ key[p] # StuckKey) ~> pc[p] = "done"

\* A fallback of StuckKey is running, a second call on StuckKey waits for its
\* mutex, and a call on another key has run its own fallback and returned.
C10_Witness ==
  \E p, q, r \in Procs :
    /\ pc[q] = "load" /\ key[q] = StuckKey
    /\ pc[r] = "lock" /\ key[r] = StuckKey /\ mutex[r] \in locked
    /\ pc[p] = "done" /\ key[p] # StuckKey /\ key[p] # NoKey
    /\ calls[key[p]] = 1 /\ ret[p].err = Nil

\* The cleaner goroutine has returned, or was never started.
CleanerGone == cleanerPc \in {"off", "stopped"}

\* C11 -- Close.  Once the user has closed the cache, the cleaner NewCache
\* started terminates; on a cache built with NoCleaner there is no cleaner and
\* the close changes nothing.
C11_Close == closed ~> CleanerGone

\* C18 -- Sweeper stop, as stated.  After cleaner.Stop has been called the
\* select takes no further tick, so no DeleteExpired begins after the call.
C18_NoTickAfterStop ==
  [][stopChan = "closed" => ~CleanerTick]_vars

\* C18 -- Sweeper stop, amended.  Once cleaner.Stop has been called the
\* cleaner goroutine terminates with its ticker halted; from then on it stays
\* terminated, the ticker stays halted and no sweep of the cleaner changes the
\* map.  (Ticks the select takes between the call and the termination still
\* run DeleteExpired.)
C18_StopTerminates ==
  /\ (stopChan = "closed") ~> (cleanerPc = "stopped" /\ ticker = "stopped")
  /\ [][cleanerPc = "stopped" =>
          /\ cleanerPc' = "stopped" /\ ticker' = "stopped"
          /\ stopChan = "closed"
          /\ (items' # items => last'.op \notin {"none", "CleanerSweep"})
       ]_vars

\* Stop was called and the cleaner has terminated with its ticker halted; an
\* entry whose TTL has elapsed is still in the map.
C18_Witness ==
  /\ cleanerPc = "stopped" /\ ticker = "stopped" /\ stopChan = "closed"
  /\ \E k \in Keys :
       /\ items[k] # NoItem /\ stored[k].dur # NoTTL
       /\ now > stored[k].at + stored[k].dur

\* The per-key mutex objects in use for k: the registry's entry and the
\* handles of the Fetch callers of k.
InUse(k) ==
  ({mutexesByKey[k]} \cup {mutex[p] : p \in {q \in Procs : key[q] = k}}) \ {NoMutex}

\* The Fetch callers of k between mutex.Lock() and mutex.Unlock().
Holders(k) == {p \in Procs : key[p] = k /\ pc[p] \in Holding}

\* C12 -- KeyLock invariant.  For each key at most one per-key mutex object
\* is in use, and at most one Fetch caller holds a per-key mutex for the key.
C12_KeyLock ==
  \A k \in Keys :
    /\ Cardinality(InUse(k)) <= 1
    /\ Cardinality(Holders(k)) <= 1

\* The steps a Fetch call may take from one position to the next: obtain,
\* lock, recheck, populate or fail, release, unlock.
Order ==
  {<<"idle", "done">>, <<"idle", "obtain">>, <<"obtain", "obtaining">>,
   <<"obtaining", "lock">>, <<"lock", "recheck">>, <<"recheck", "load">>,
   <<"recheck", "release">>, <<"load", "release">>, <<"release", "releasing">>,
   <<"releasing", "unlock">>, <<"unlock", "done">>}

\* C13 -- Lock teardown order, as stated.  The caller has unlocked its per-key
\* mutex when it removes the key's entry from the registry.
C13_UnlockBeforeRelease ==
  [][\A p \in Procs : Release(p) => mutex[p] \notin locked]_vars

\* C13 -- Lock teardown order, amended.  A slow-path call performs obtain,
\* lock, recheck, populate-or-fail, release, unlock in that order: it removes
\* the key's entry from the registry while it still holds the per-key mutex
\* and unlocks the mutex afterwards, as its last step.
C13_ReleaseBeforeUnlock ==
  [][\A p \in Procs :
       /\ pc'[p] # pc[p] => <<pc[p], pc'[p]>> \in Order
       /\ Release(p) =>
            /\ mutex[p] \in locked /\ mutex[p] \in locked'
            /\ mutexesByKey'[key[p]] = NoMutex
       /\ MutexUnlock(p) =>
            /\ mutex[p] \in locked /\ mutex[p] \notin locked'
            /\ pc'[p] = "done"
     ]_vars

\* A call whose fallback failed has removed the registry entry of its key and
\* still holds its per-key mutex.
C13_Witness ==
  \E p \in Procs :
    /\ pc[p] = "unlock"
    /\ ret[p] = Failed(LoaderErr)
    /\ mutexesByKey[key[p]] = NoMutex
    /\ mutex[p] \in locked

\* C14 -- obtain returns a shared lock.  The registry entry of a key changes
\* only when obtain creates it or release removes it; an obtain(k) that finds
\* an entry returns that mutex and leaves the entry, and an obtain(k) that
\* finds none returns a mutex nobody refers to and enters it.  Hence all
\* obtain(k) calls between two release(k) return the same mutex, and those
\* callers' handles equal the entry for as long as it stays.
C14_SharedLock ==
  [][\A k \in Keys :
       /\ mutexesByKey'[k] # mutexesByKey[k] =>
            \/ \E p \in Procs : Release(p) /\ key[p] = k /\ mutexesByKey'[k] = NoMutex
            \/ \E p \in Procs : Obtain(p) /\ key[p] = k /\ mutexesByKey[k] = NoMutex
       /\ \A p \in Procs :
            (Obtain(p) /\ key[p] = k) =>
              /\ mutexesByKey'[k] = mutex'[p]
              /\ mutex'[p] # NoMutex
              /\ mutexesByKey[k] # NoMutex => mutex'[p] = mutexesByKey[k]
              /\ mutexesByKey[k] = NoMutex =>
                   /\ mutex'[p] \notin LiveMutexes
                   /\ mutex'[p] \notin locked
              /\ \A q \in Procs :
                   (key[q] = k /\ pc[q] \in {"lock", "recheck", "load"}
                      /\ mutexesByKey[k] = mutex[q]) => mutex'[p] = mutex[q]
     ]_vars

\* Three callers of one key have obtained the same mutex with no release in
\* between: one holds it, two wait for it.
C14_Witness ==
  \E k \in Keys, p \in Procs :
    /\ \A q \in Procs : key[q] = k /\ mutex[q] = mutexesByKey[k] /\ mutex[q] # NoMutex
    /\ pc[p] = "load"
    /\ \A q \in Procs \ {p} : pc[q] = "lock"

\* A Fetch call between the return of its obtain and the end of its release.
Registered == {"lock", "recheck", "load", "release", "releasing"}

\* C15 -- Registry entries do not leak.  A registry entry for k exists only
\* while some Fetch call for k is between its obtain and its release; a locked
\* per-key mutex is held by a call in flight; a call that has returned keeps
\* no mutex; and when no call is in flight the registry is empty and no
\* mutex is locked.
C15_NoLeak ==
  /\ \A k \in Keys :
       mutexesByKey[k] # NoMutex =>
         \E p \in Procs : key[p] = k /\ pc[p] \in Registered
  /\ \A m \in locked : \E p \in Procs : mutex[p] = m /\ pc[p] \in Holding
  /\ \A p \in Procs : pc[p] \in {"idle", "done"} => mutex[p] = NoMutex
  /\ (\A p \in Procs : pc[p] \in {"idle", "done"}) =>
       /\ \A k \in Keys : mutexesByKey[k] = NoMutex
       /\ locked = {}
       /\ lockerMutex = NoProc

\* All three calls have returned, one with the fallback's error and one with
\* a value after a second invocation of the fallback, and the registry is
\* empty.
C15_Witness ==
  /\ \A p \in Procs : pc[p] = "done"
  /\ \E k \in Keys, p, q \in Procs :
       /\ key[p] = k /\ key[q] = k /\ calls[k] >= 2
       /\ ret[p] = Failed(LoaderErr)
       /\ ret[q].err = Nil
  /\ \A k \in Keys : mutexesByKey[k] = NoMutex

\* C16 -- Lock nesting.  The goroutine that holds locker.mutex is inside the
\* lookup/insert of obtain or the delete of release: it is not inside a
\* fallback, not at a store operation, not waiting for a per-key mutex; and
\* nobody else is inside obtain's or release's critical section.
C16_LockNesting ==
  /\ lockerMutex \in Procs \cup {NoProc}
  /\ \A p \in Procs :
       /\ lockerMutex = p => pc[p] \in {"obtaining", "releasing"}
       /\ pc[p] \in {"obtaining", "releasing"} => lockerMutex = p
       /\ pc[p] \in {"idle", "lock", "recheck", "load", "done"} => lockerMutex # p

\* A caller holds locker.mutex inside release while a second caller is inside
\* its fallback and a third waits for that caller's per-key mutex.
C16_Witness ==
  \E p, q, r \in Procs :
    /\ lockerMutex = p /\ pc[p] = "releasing"
    /\ pc[q] = "load"
    /\ pc[r] = "lock" /\ mutex[r] = mutex[q] /\ mutex[r] \in locked

InFlight(p) == pc[p] \notin {"idle", "done"}

\* C17 -- Fetch terminates.  Whenever a call is inside Cache.fetch some call
\* inside Cache.fetch can take a step (no deadlock), and when every goroutine
\* is scheduled and every fallback returns, every call returns.
C17_FetchTerminates ==
  /\ []((\E p \in Procs : InFlight(p)) => \E p \in Procs : InFlight(p) /\ ENABLED Run(p))
  /\ \A p \in Procs : InFlight(p) ~> pc[p] = "done"

\* All three calls took the per-key lock of one key in turn and have
\* returned, the first with the fallback's error.
C17_Witness ==
  /\ \A p \in Procs : pc[p] = "done"
  /\ \E k \in Keys :
       /\ \A p \in Procs : key[p] = k
       /\ calls[k] = 3
  /\ \E p \in Procs : ret[p] = Failed(LoaderErr)

\* What a scan that compares with clock reading t leaves of entry k.
Swept(k, t) ==
  IF items[k] # NoItem /\ items[k].ttl # NoTTL /\ items[k].ttl < t THEN NoItem ELSE items[k]

\* C19 -- DeleteExpired.  A DeleteExpired call that read the clock as t removes
\* exactly the entries whose expiry instant is not the NoTTL sentinel and is
\* strictly earlier than t; every other entry keeps its value and expiry, in
\* the one step of the scan; the cleaner's sweep does the same with the
\* reading of its tick.
C19_DeleteExpired ==
  [][/\ last'.op = "DeleteExpired" =>
          /\ last'.t \in StartTime..now
          /\ \A k \in Keys : items'[k] = Swept(k, last'.t)
     /\ last'.op = "CleanerSweep" =>
          /\ last'.t = cleanerNow
          /\ \A k \in Keys : items'[k] = Swept(k, cleanerNow)
    ]_vars

\* A DeleteExpired call has removed an entry that was stored with a TTL and
\* has kept another whose expiry instant equals the call's clock reading.
C19_Witness ==
  /\ last.op = "DeleteExpired"
  /\ last.had
  /\ \E k, j \in Keys :
       /\ items[k] = NoItem
       /\ items[j] # NoItem /\ items[j].ttl = last.t

\* C20 -- Get does not check expiry.  A Get(k) call returns the stored value
\* and a nil error whenever k has an entry, also when the entry's expiry
\* instant is in the past; it returns ErrNotFound only when k has no entry;
\* and it leaves the map as it was.
C20_GetNoExpiry ==
  [][\A k \in Keys :
       GetCall(k) =>
         /\ items' = items
         /\ items[k] # NoItem => (last'.had /\ Get(k) = Ok(items[k].value))
         /\ items[k] = NoItem => (~last'.had /\ Get(k) = Failed(ErrNotFound))
     ]_vars

\* A Get call has just found an entry whose expiry instant is in the past.
C20_Witness ==
  /\ last.op = "Get"
  /\ last.had
  /\ isExpirable(items[last.key])
  /\ items[last.key].ttl < now

\* C21 -- Store writes by Fetch.  A call enters the slow path with the TTL it
\* was given: the default TTL for Fetch, the explicit one for FetchEx.  The
\* step in which its fallback returns a value writes the entry of its own key,
\* once, with that value and that TTL, and leaves every other entry; a
\* fallback runs only after a recheck that missed, and once per call.  Every
\* other step of a call (fast-path hit, recheck hit or miss, fallback failure,
\* lock and registry steps) leaves the store as it was.
C21_FetchWrites ==
  [][\A p \in Procs :
       /\ \A k \in Keys :
            /\ (Fetch(p, k) /\ pc'[p] = "obtain") => ttl'[p] = defaultTTL
            /\ \A d \in TTLs : (FetchEx(p, k, d) /\ pc'[p] = "obtain") => ttl'[p] = d
       /\ (pc[p] \notin {"idle", "load"} /\ pc'[p] # "load") => ttl'[p] \in {ttl[p], 0}
       /\ pc'[p] = "load" => (pc[p] \in {"recheck", "load"} /\ ttl'[p] = ttl[p])
       /\ (pc[p] = "load" /\ pc'[p] # "load" /\ ret'[p].err = Nil) =>
            /\ items' = [items EXCEPT ![key[p]] = [value |-> ret'[p].value, ttl |-> now + ttl[p]]]
            /\ stored' = [stored EXCEPT ![key[p]] = [at |-> now, dur |-> ttl[p]]]
            /\ pc'[p] = "release"
       /\ (pc'[p] # pc[p] /\ ~(pc[p] = "load" /\ ret'[p].err = Nil)) =>
            /\ items' = items
            /\ stored' = stored
     ]_vars

\* A FetchEx call with NoTTL has stored its fallback's value with that TTL
\* and returned it, while a call on the other key has returned its fallback's
\* error and left the key absent.
C21_Witness ==
  \E p, q \in Procs :
    /\ pc[p] = "done" /\ key[p] # NoKey
    /\ calls[key[p]] = 1
    /\ stored[key[p]].dur = NoTTL /\ defaultTTL # NoTTL
    /\ items[key[p]] # NoItem /\ ret[p] = Ok(items[key[p]].value)
    /\ pc[q] = "done" /\ key[q] \notin {NoKey, key[p]}
    /\ ret[q] = Failed(LoaderErr)
    /\ items[key[q]] = NoItem

\* C22 -- Returned values come from the store.  The step in which a call
\* fixes a result with a nil error either reads that value from the entry of
\* its key (first lookup or recheck) or writes it there (fallback success);
\* the step lies between the call's start and its return, and the result is
\* not changed afterwards, whatever Set, Delete, DeleteAll and other calls do
\* in between.
C22_ValueFromStore ==
  [][\A p \in Procs :
       /\ (ret'[p] # ret[p] /\ ret'[p].err = Nil) =>
            /\ pc[p] \in {"idle", "recheck", "load"}
            /\ pc'[p] \in {"done", "release"}
            /\ ret'[p].value # Nil
            /\ \/ items[key'[p]] # NoItem /\ items[key'[p]].value = ret'[p].value
               \/ pc[p] = "load" /\ items'[key[p]].value = ret'[p].value
       /\ pc[p] \in SlowExit \cup {"done"} => ret'[p] = ret[p]
       /\ (pc'[p] = "done" /\ pc[p] # "done") => ret'[p] # NoRet
     ]_vars

\* Two calls on one key have obtained the value a concurrent Set stored, one
\* of them at its recheck (no fallback ever ran); the first has returned, and
\* the key has been deleted since: the store no longer holds what they return.
C22_Witness ==
  \E p \in Procs :
    /\ pc[p] = "done" /\ key[p] # NoKey
    /\ ret[p] = Ok(UserValue)
    /\ \A k \in Keys : calls[k] = 0
    /\ mutexesByKey[key[p]] = NoMutex
    /\ \E q \in Procs \ {p} : pc[q] = "unlock" /\ key[q] = key[p] /\ ret[q] = ret[p]
    /\ items[key[p]] = NoItem

====
